---- MODULE Spec2Model ----
(***************************************************************************)
(* juju-bundle: the `publish`, `deploy` and `remove` subcommands of        *)
(* src/src/main.rs as state machines.                                      *)
(*                                                                         *)
(* Rust values are written as follows.  Option<T>: None is <<>>, Some(x)   *)
(* is <<x>>.  A string that the program splits on ':' is the sequence of   *)
(* its ':'-separated segments ("a:db" is <<"a", "db">>, "a" is <<"a">>).   *)
(* A charm URL is [name, revision : Option<Nat>]; its string form is       *)
(* [str |-> "url", name, revision].                                        *)
(***************************************************************************)
EXTENDS Integers, Sequences, FiniteSets, TLC

\* Number of applications of the bundle document.
NumApps == 2
\* Number of relation pairs of the bundle document that export reads.
MaxRels == 2

VARIABLES
    cmd,         \* the subcommand being run (main, Config)
    c,           \* the subcommand's parsed CLI arguments
    disk,        \* the bundle document at c.bundle_path, and the store's answers
    pc,          \* position of the control thread in the subcommand
    result,      \* what the subcommand returned: [kind, msg]
    bundle,      \* `bundle`, as loaded (publish) / loaded and narrowed (deploy)
    order,       \* iteration order of bundle.applications (a HashMap)
    bundle_url,  \* Option<store> of the resolved bundle URL
    status,      \* per application: state of its unit of work (helper)
    revisions,   \* the (name, url string) pairs the units returned, as emitted
    saved_error, \* Option<error>: the error `revisions` collected to
    new_bundle,  \* the clone that receives the pinned revisions
    cursor,      \* number of `revisions` entries already merged
    saved,       \* Option<bundle>: the bundle document the subcommand wrote
    rbundle,     \* remove: Option<bundle>, its own `bundle`
    rleft,       \* remove: the applications its loop has not reached yet
    graph,       \* export: the petgraph Graph, [nodes, edges]
    log          \* external effects so far, in order

vars == <<cmd, c, disk, pc, result, bundle, order, bundle_url, status,
          revisions, saved_error, new_bundle, cursor, saved, rbundle, rleft, graph,
          log>>

---------------------------------------------------------------------------
\* Option<T>
None == <<>>
Some(x) == <<x>>
IsSome(o) == o # <<>>
Unwrap(o) == o[1]

\* Graph::new()
EmptyGraph == [nodes |-> <<>>, edges |-> <<>>]

AllNames == <<"a", "b", "c", "d">>
Apps == {AllNames[i] : i \in 1..NumApps}

Range(s) == {s[i] : i \in DOMAIN s}
Perms(S) == {s \in [1..Cardinality(S) -> S] : Range(s) = S}

\* The result of a subcommand that has not returned yet / returned.
\* names: the application names the error message lists.
Running == [kind |-> "running", msg |-> "", names |-> {}]
Ok == [kind |-> "ok", msg |-> "", names |-> {}]
Err(m) == [kind |-> "err", msg |-> m, names |-> {}]
ErrNames(m, names) == [kind |-> "err", msg |-> m, names |-> names]
Panic(m) == [kind |-> "panic", msg |-> m, names |-> {}]

\* An external effect: the invocation of a collaborator.
Ev(op, app, arg) == [op |-> op, app |-> app, arg |-> arg]
Did(op) == \E i \in DOMAIN log : log[i].op = op
Count(op, app) == Cardinality({i \in DOMAIN log : log[i].op = op /\ log[i].app = app})

---------------------------------------------------------------------------
\* Channel::from_str, as used at main.rs:412: the named channels parse,
\* anything else is an error.
ChannelFromStr(s) ==
    CASE s = "stable" -> [ok |-> TRUE, channel |-> "Stable"]
      [] s = "edge"   -> [ok |-> TRUE, channel |-> "Edge"]
      [] OTHER        -> [ok |-> FALSE, channel |-> "Stable"]

\* CharmURL::to_string / CharmURL::with_revision / str::parse::<CharmURL>
UrlToString(url) == [str |-> "url", name |-> url.name, revision |-> url.revision]
WithRevision(url, rev) == [url EXCEPT !.revision = rev]
ParseUrl(s) == [name |-> s.name, revision |-> s.revision]

\* url.show(channel)?.id_revision.revision: the store's latest revision of
\* the charm on that channel.
StoreShow(channel) == disk.latest[channel]

\* What app.upload_charmhub / app.upload_charm_store return: the URL string
\* of the revision the upload created.
UploadedUrl(name) == [str |-> "url", name |-> name, revision |-> Some(disk.fresh)]

---------------------------------------------------------------------------
\* publish: the closure `helper`, one application's unit of work.  It reads
\* the application and returns what it did: [kind, value, msg, events].
\* prune_ok is the outcome of `docker system prune` when it is run.
NoValue(name) == [str |-> "url", name |-> name, revision |-> None]
HelperOk(name, value, events) ==
    [kind |-> "ok", value |-> value, msg |-> "", events |-> events]
HelperErr(name, msg, events) ==
    [kind |-> "err", value |-> NoValue(name), msg |-> msg, events |-> events]
HelperPanic(name, msg, events) ==
    [kind |-> "panic", value |-> NoValue(name), msg |-> msg, events |-> events]

\* HelperShow with the most unstable channel as the default.
HelperShowEdgeDefault(name, app, url) ==
    LET parsed == IF IsSome(app.channel)
                  THEN ChannelFromStr(Unwrap(app.channel))
                  ELSE [ok |-> TRUE, channel |-> "Edge"]
        show == <<Ev("show", name, parsed.channel)>>
    IN  IF ~parsed.ok THEN HelperErr(name, "channel", <<>>)
        ELSE IF name \in disk.fails THEN HelperErr(name, "show", show)
        ELSE HelperOk(name,
                 UrlToString(WithRevision(url, Some(StoreShow(parsed.channel)))),
                 show)

\* main.rs:408-417: no build source: ask the store for the latest revision
\* on the declared channel.
HelperShow(name, app, url) ==
    LET parsed == IF IsSome(app.channel)
                  THEN ChannelFromStr(Unwrap(app.channel))
                  ELSE [ok |-> TRUE, channel |-> "Stable"]
        show == <<Ev("show", name, parsed.channel)>>
    IN  IF ~parsed.ok THEN HelperErr(name, "channel", <<>>)
        ELSE IF name \in disk.fails THEN HelperErr(name, "show", show)
        ELSE HelperOk(name,
                 UrlToString(WithRevision(url, Some(StoreShow(parsed.channel)))),
                 show)

\* main.rs:419-441: build source present: build and upload, then prune.
HelperUpload(name, app, prune_ok) ==
    LET store == Unwrap(bundle_url)
        upload == <<Ev("upload", name, store)>>
        prune == <<Ev("prune", name, "")>>
    IN  IF store \notin {"ch", "cs"} THEN HelperPanic(name, "unknown store", <<>>)
        ELSE IF name \in disk.fails THEN HelperErr(name, "upload", upload)
        ELSE IF c.prune /\ ~prune_ok THEN HelperErr(name, "prune", upload \o prune)
        ELSE HelperOk(name, UploadedUrl(name),
                      IF c.prune THEN upload \o prune ELSE upload)

\* RevisionPinned of a helper that does not look at the revision.
RevisionPinnedIgnored(url) == FALSE

\* main.rs:404-406: a reference that carries a revision is returned as it is.
RevisionPinned(url) == IsSome(url.revision)

\* main.rs:401-442
Helper(name, app, prune_ok) ==
    IF ~IsSome(app.charm) THEN HelperPanic(name, "unwrap on None", <<>>)
    ELSE LET url == Unwrap(app.charm)
         IN  IF RevisionPinned(url) THEN HelperOk(name, UrlToString(url), <<>>)
             ELSE IF ~app.source THEN HelperShow(name, app, url)
             ELSE HelperUpload(name, app, prune_ok)

---------------------------------------------------------------------------
\* The inputs of publish.

\* One application of the bundle document, with the store's answer for it:
\* fails says that the store call made for it (show or upload) fails.
Kind(charm, channel, source, fails) ==
    [charm |-> charm, channel |-> channel, source |-> source, fails |-> fails]
AppKinds ==
    { Kind("none", None, FALSE, FALSE), Kind("none", None, TRUE, FALSE),
      Kind("rev", None, FALSE, FALSE), Kind("rev", Some("edge"), TRUE, FALSE),
      Kind("norev", None, FALSE, FALSE), Kind("norev", Some("edge"), FALSE, FALSE),
      Kind("norev", Some("bogus"), FALSE, FALSE), Kind("norev", None, FALSE, TRUE),
      Kind("norev", None, TRUE, FALSE), Kind("norev", Some("edge"), TRUE, TRUE) }

\* juju::bundle::Application, as publish reads it.
MkApp(name, k) ==
    [charm   |-> CASE k.charm = "none"  -> None
                   [] k.charm = "norev" -> Some([name |-> name, revision |-> None])
                   [] OTHER             -> Some([name |-> name, revision |-> Some(1)]),
     channel |-> k.channel,
     source  |-> k.source]

\* juju::bundle::Bundle
MkBundle(name, apps, rels) == [name |-> name, applications |-> apps, relations |-> rels]

PublishDisks ==
    { [bundle |-> MkBundle(n, [a \in Apps |-> MkApp(a, ks[a])],
                           << <<(<<"a", "db">>), (<<"b", "db">>)>> >>),
       fails  |-> {a \in Apps : ks[a].fails},
       latest |-> [Stable |-> 7, Edge |-> 8],
       fresh  |-> 9] : ks \in [Apps -> AppKinds], n \in {None, Some("bundle")} }

\* PublishConfig (main.rs:136-173): the fields publish branches on.  cs_url
\* is Some of a URL of store "ch", "cs" or another one, or of text that does
\* not parse.
PublishConfigs ==
    { [serial |-> s, prune |-> p, cs_url |-> u] :
        s \in BOOLEAN, p \in BOOLEAN,
        u \in {None, Some("ch"), Some("cs"), Some("xx"), Some("bad")} }

NoStatus == [a \in Apps |-> "idle"]

Init ==
    /\ cmd = "publish"
    /\ c \in PublishConfigs
    /\ disk \in {d \in PublishDisks : IsSome(c.cs_url) => IsSome(d.bundle.name)}
    /\ pc = "start"
    /\ result = Running
    /\ bundle = None
    /\ order = <<>>
    /\ bundle_url = None
    /\ status = NoStatus
    /\ revisions = <<>>
    /\ saved_error = None
    /\ new_bundle = None
    /\ cursor = 0
    /\ saved = None
    /\ rbundle = None
    /\ rleft = {}
    /\ graph = EmptyGraph
    /\ log = <<>>

\* `return Err(..)` / `?` / a panic: the subcommand ends.
Return(r) == pc' = "done" /\ result' = r

---------------------------------------------------------------------------
\* publish (main.rs:366-504)

\* PublishCheck without the guard of main.rs:367-371.
PublishCheckNoGuard ==
    /\ cmd = "publish" /\ pc = "start"
    /\ pc' = "load" /\ UNCHANGED result
    /\ UNCHANGED <<rbundle, rleft, graph>>
    /\ UNCHANGED <<cmd, c, disk, bundle, order, bundle_url, status, revisions,
                   saved_error, new_bundle, cursor, saved, log>>

\* main.rs:367-371
PublishCheck ==
    /\ cmd = "publish" /\ pc = "start"
    /\ IF c.prune /\ ~c.serial
       THEN Return(Err("To use --prune, you must set the --serial flag as well."))
       ELSE pc' = "load" /\ UNCHANGED result
    /\ UNCHANGED <<rbundle, rleft, graph>>
    /\ UNCHANGED <<cmd, c, disk, bundle, order, bundle_url, status, revisions,
                   saved_error, new_bundle, cursor, saved, log>>

\* main.rs:372-373: Bundle::load(path)?.  The iteration order of the
\* applications map is fixed when the map is built.
PublishLoad ==
    /\ cmd = "publish" /\ pc = "load"
    /\ log' = Append(log, Ev("load", "", ""))
    /\ \E ok \in BOOLEAN :
         IF ok
         THEN /\ bundle' = Some(disk.bundle)
              /\ order' \in Perms(Apps)
              /\ pc' = "login" /\ UNCHANGED result
         ELSE /\ Return(Err("load"))
              /\ UNCHANGED <<bundle, order>>
    /\ UNCHANGED <<rbundle, rleft, graph>>
    /\ UNCHANGED <<cmd, c, disk, bundle_url, status, revisions, saved_error,
                   new_bundle, cursor, saved>>

\* main.rs:375-378: run("charm", &["login"])?
PublishLogin ==
    /\ cmd = "publish" /\ pc = "login"
    /\ log' = Append(log, Ev("login", "", ""))
    /\ \E ok \in BOOLEAN :
         IF ok THEN pc' = "url" /\ UNCHANGED result ELSE Return(Err("login"))
    /\ UNCHANGED <<rbundle, rleft, graph>>
    /\ UNCHANGED <<cmd, c, disk, bundle, order, bundle_url, status, revisions,
                   saved_error, new_bundle, cursor, saved>>

\* main.rs:380-399: the bundle's URL, from --url or from the bundle's name.
PublishUrl ==
    /\ cmd = "publish" /\ pc = "url"
    /\ IF IsSome(c.cs_url)
       THEN IF Unwrap(c.cs_url) = "bad"
            THEN Return(Err("Couldn't parse charm URL")) /\ UNCHANGED bundle_url
            ELSE pc' = "units" /\ bundle_url' = c.cs_url /\ UNCHANGED result
       ELSE IF IsSome(Unwrap(bundle).name)
            THEN pc' = "units" /\ bundle_url' = Some("ch") /\ UNCHANGED result
            ELSE Return(Err("Need to specify either a bundle URL or declare name"))
                 /\ UNCHANGED bundle_url
    /\ UNCHANGED <<rbundle, rleft, graph>>
    /\ UNCHANGED <<cmd, c, disk, bundle, order, status, revisions, saved_error,
                   new_bundle, cursor, saved, log>>

\* States of the units of work.
InFlight == {a \in Apps : status[a] = "running"}
Completed == {a \in Apps : status[a] \in {"ok", "err", "panic"}}
Panicked == {a \in Apps : status[a] = "panic"}

\* SerialNextApp of an iteration that takes any application not yet taken.
SerialNextAny == {a \in Apps : status[a] = "idle"}

\* main.rs:448: `iter().map(helper).collect()` pulls the applications one
\* by one in iteration order; the next one is the one after those done.
SerialNextApp == {order[Cardinality(Completed) + 1]}

\* MayDispatch of an orchestrator that keeps dispatching after an error.
MayDispatchAlways == TRUE

\* Collecting into a Result stops pulling items at the first Err
\* (main.rs:447-451): later applications are not handed to `helper`.
MayDispatch == saved_error = None

\* main.rs:448: Serial policy hands the next application to `helper`.
SerialStart ==
    /\ cmd = "publish" /\ pc = "units" /\ c.serial
    /\ InFlight = {} /\ Panicked = {} /\ MayDispatch
    /\ Completed # Apps
    /\ \E a \in SerialNextApp :
         /\ status[a] = "idle"
         /\ status' = [status EXCEPT ![a] = "running"]
    /\ UNCHANGED <<rbundle, rleft, graph>>
    /\ UNCHANGED <<cmd, c, disk, pc, result, bundle, order, bundle_url, revisions,
                   saved_error, new_bundle, cursor, saved, log>>

\* main.rs:450: Parallel policy: a worker of the pool takes an application
\* that no worker has taken yet.
ParStart(a) ==
    /\ cmd = "publish" /\ pc = "units" /\ ~c.serial
    /\ status[a] = "idle" /\ MayDispatch
    /\ status' = [status EXCEPT ![a] = "running"]
    /\ UNCHANGED <<rbundle, rleft, graph>>
    /\ UNCHANGED <<cmd, c, disk, pc, result, bundle, order, bundle_url, revisions,
                   saved_error, new_bundle, cursor, saved, log>>

\* main.rs:401-442: `helper` runs for application a and returns.
UnitFinish(a) ==
    /\ cmd = "publish" /\ pc = "units" /\ status[a] = "running"
    /\ \E prune_ok \in BOOLEAN :
         LET r == Helper(a, Unwrap(bundle).applications[a], prune_ok)
         IN  /\ log' = log \o r.events
             /\ status' = [status EXCEPT ![a] = r.kind]
             /\ revisions' = IF r.kind = "ok"
                             THEN Append(revisions, <<a, r.value>>)
                             ELSE revisions
             /\ saved_error' = IF r.kind = "err" /\ saved_error = None
                               THEN Some(r.msg)
                               ELSE saved_error
    /\ UNCHANGED <<rbundle, rleft, graph>>
    /\ UNCHANGED <<cmd, c, disk, pc, result, bundle, order, bundle_url,
                   new_bundle, cursor, saved>>

\* The collect of main.rs:447-451 returns when no unit is in flight and
\* either every application was processed or the collection was stopped.
CollectReady ==
    /\ InFlight = {}
    /\ \/ Completed = Apps
       \/ ~MayDispatch
       \/ Panicked # {}

\* PublishCollect that returns an error of its own for a failed unit.
PublishCollectGeneric ==
    /\ cmd = "publish" /\ pc = "units" /\ CollectReady
    /\ IF Panicked # {}
       THEN Return(Panic("helper")) /\ UNCHANGED new_bundle
       ELSE /\ new_bundle' = bundle
            /\ IF IsSome(saved_error)
               THEN Return(Err("publish failed"))
               ELSE pc' = "merge" /\ UNCHANGED result
    /\ UNCHANGED <<rbundle, rleft, graph>>
    /\ UNCHANGED <<cmd, c, disk, bundle, order, bundle_url, status, revisions,
                   saved_error, cursor, saved, log>>

\* main.rs:447-456: the collect returns; a panic of a unit is resumed in the
\* caller; otherwise the bundle is cloned and `revisions?` returns the error.
PublishCollect ==
    /\ cmd = "publish" /\ pc = "units" /\ CollectReady
    /\ IF Panicked # {}
       THEN Return(Panic("helper")) /\ UNCHANGED new_bundle
       ELSE /\ new_bundle' = bundle
            /\ IF IsSome(saved_error)
               THEN Return(Err(Unwrap(saved_error)))
               ELSE pc' = "merge" /\ UNCHANGED result
    /\ UNCHANGED <<rbundle, rleft, graph>>
    /\ UNCHANGED <<cmd, c, disk, bundle, order, bundle_url, status, revisions,
                   saved_error, cursor, saved, log>>

\* MergeKey of a merge by position in the applications map.
MergeKeyByPosition(i) == order[i]

\* main.rs:456-460: the application that receives the i-th outcome.
MergeKey(i) == revisions[i][1]

\* PublishMerge that rewrites the loaded bundle instead of the clone.
PublishMergeInPlace ==
    /\ cmd = "publish" /\ pc = "merge" /\ cursor < Len(revisions)
    /\ LET i == cursor + 1
           name == MergeKey(i)
           revision == revisions[i][2]
       IN  bundle' = Some([Unwrap(bundle) EXCEPT
               !.applications[name] =
                   [@ EXCEPT !.charm = Some(ParseUrl(revision)), !.channel = None]])
    /\ cursor' = cursor + 1
    /\ UNCHANGED <<rbundle, rleft, graph>>
    /\ UNCHANGED <<cmd, c, disk, pc, result, new_bundle, order, bundle_url, status,
                   revisions, saved_error, saved, log>>

\* main.rs:456-464: one iteration of the loop over the outcomes.
PublishMerge ==
    /\ cmd = "publish" /\ pc = "merge" /\ cursor < Len(revisions)
    /\ LET i == cursor + 1
           name == MergeKey(i)
           revision == revisions[i][2]
       IN  new_bundle' = Some([Unwrap(new_bundle) EXCEPT
               !.applications[name] =
                   [@ EXCEPT !.charm = Some(ParseUrl(revision)), !.channel = None]])
    /\ cursor' = cursor + 1
    /\ UNCHANGED <<rbundle, rleft, graph>>
    /\ UNCHANGED <<cmd, c, disk, pc, result, bundle, order, bundle_url, status,
                   revisions, saved_error, saved, log>>

\* main.rs:466-469: TempDir::new()? and new_bundle.save(..)?
PublishSave ==
    /\ cmd = "publish" /\ pc = "merge" /\ cursor = Len(revisions)
    /\ \E ok \in BOOLEAN :
         IF ok
         THEN /\ saved' = new_bundle
              /\ log' = Append(log, Ev("save", "", ""))
              /\ pc' = "copy" /\ UNCHANGED result
         ELSE Return(Err("save")) /\ UNCHANGED <<saved, log>>
    /\ UNCHANGED <<rbundle, rleft, graph>>
    /\ UNCHANGED <<cmd, c, disk, bundle, order, bundle_url, status, revisions,
                   saved_error, new_bundle, cursor>>

\* main.rs:471-487: README.md is copied; charmcraft.yaml is copied when it
\* exists.
PublishCopy ==
    /\ cmd = "publish" /\ pc = "copy"
    /\ \E ok \in BOOLEAN :
         IF ok THEN pc' = "upload" /\ UNCHANGED result ELSE Return(Err("copy"))
    /\ UNCHANGED <<rbundle, rleft, graph>>
    /\ UNCHANGED <<cmd, c, disk, bundle, order, bundle_url, status, revisions,
                   saved_error, new_bundle, cursor, saved, log>>

\* main.rs:489-503: the bundle is uploaded to its store.
PublishUpload ==
    /\ cmd = "publish" /\ pc = "upload"
    /\ IF Unwrap(bundle_url) \notin {"ch", "cs"}
       THEN Return(Panic("Unknown charm store")) /\ UNCHANGED log
       ELSE /\ log' = Append(log, Ev("upload_bundle", "", Unwrap(bundle_url)))
            /\ \E ok \in BOOLEAN :
                 IF ok THEN Return(Ok) ELSE Return(Err("upload_bundle"))
    /\ UNCHANGED <<rbundle, rleft, graph>>
    /\ UNCHANGED <<cmd, c, disk, bundle, order, bundle_url, status, revisions,
                   saved_error, new_bundle, cursor, saved>>

Next ==
    \/ PublishCheck
    \/ PublishLoad
    \/ PublishLogin
    \/ PublishUrl
    \/ SerialStart
    \/ \E a \in Apps : ParStart(a)
    \/ \E a \in Apps : UnitFinish(a)
    \/ PublishCollect
    \/ PublishMerge
    \/ PublishSave
    \/ PublishCopy
    \/ PublishUpload

Spec == Init /\ [][Next]_vars

---------------------------------------------------------------------------
\* deploy (main.rs:275-350) and remove (main.rs:352-363)

\* The application a relation endpoint names: rel[i].split(':').next()
EndpointApp(endpoint) == Head(endpoint)

\* Bundle::limit_apps(apps, exceptions): keep the named applications (all
\* of them when none is named) except the exceptions; a named application
\* that the bundle does not have is an error; a relation stays only if both
\* its endpoints' applications stay.
LimitApps(b, apps, exceptions) ==
    LET existing == DOMAIN b.applications
        missing == apps \ existing
        subset == ((IF apps = {} THEN existing ELSE apps) \ exceptions) \cap existing
        Stays(rel) == EndpointApp(rel[1]) \in subset /\ EndpointApp(rel[2]) \in subset
    IN  [ok |-> missing = {},
         missing |-> missing,
         bundle |-> [b EXCEPT !.applications = [a \in subset |-> b.applications[a]],
                              !.relations = SelectSeq(b.relations, Stays)]]

\* DeployLimit that drops the applications and keeps every relation.
DeployLimitAppsOnly(b) ==
    LET r == LimitApps(b, c.apps, c.exceptions)
    IN  [r EXCEPT !.bundle.relations = b.relations]

\* main.rs:281: deploy narrows with the selection and the exceptions.
DeployLimit(b) == LimitApps(b, c.apps, c.exceptions)

\* main.rs:355: remove narrows with the selection alone.
RemoveLimit(b) == LimitApps(b, c.apps, {})

\* ensure_subset that reports one of the names that are not found.
ensure_subset_first(subset, superset) ==
    LET diff == subset \ superset
    IN  [ok |-> diff = {},
         diff |-> IF diff = {} THEN {} ELSE {CHOOSE n \in diff : TRUE}]

\* main.rs:34-48: diff is what the error message lists.
ensure_subset(subset, superset) ==
    LET diff == subset \ superset
    IN  [ok |-> diff = {}, diff |-> diff]

\* The inputs of deploy and remove.
Names == Apps \cup {"zz"}
AppIndex(a) == CHOOSE i \in 1..NumApps : AllNames[i] = a
NextApp(a) == AllNames[(AppIndex(a) % NumApps) + 1]
\* The relation pairs a document may hold: every application may be related
\* to itself and to the next one.
RelPairs ==
    [k \in 1..(2 * NumApps) |->
        LET a == AllNames[((k - 1) \div 2) + 1]
        IN  IF k % 2 = 1 THEN <<(<<a, "db">>), (<<NextApp(a), "db">>)>>
                         ELSE <<(<<a>>), (<<a, "peer">>)>>]
DeployDisks ==
    { [bundle |-> MkBundle(Some("bundle"),
                           [a \in Apps |-> MkApp(a, Kind("rev", None, FALSE, FALSE))],
                           LET In(rel) == \E k \in S : RelPairs[k] = rel
                           IN  SelectSeq(RelPairs, In)),
       fails  |-> {},
       latest |-> [Stable |-> 7, Edge |-> 8],
       fresh  |-> 9] : S \in SUBSET (1..(2 * NumApps)) }

\* DeployConfig (main.rs:79-122) and RemoveConfig (main.rs:124-134): the
\* fields the subcommands branch on.  wait is 0 or the default.
DeployConfigs ==
    { [recreate |-> r, upgrade_charms |-> u, build |-> b, wait |-> w,
       apps |-> a, exceptions |-> e] :
        r \in BOOLEAN, u \in BOOLEAN,
        b \in {None, Some({}), Some({"a"}), Some({"zz"}), Some({"a", "zz"})},
        w \in {0, 60}, a \in SUBSET Names, e \in SUBSET Apps }
RemoveConfigs ==
    { [recreate |-> FALSE, upgrade_charms |-> FALSE, build |-> None, wait |-> 0,
       apps |-> a, exceptions |-> {}] : a \in SUBSET Names }
\* BuildConfig (main.rs:50-77): --app names; "yy" is a second name that no
\* bundle has.
BuildConfigs ==
    { [recreate |-> FALSE, upgrade_charms |-> FALSE, build |-> None, wait |-> 0,
       apps |-> a, exceptions |-> {}] : a \in SUBSET (Names \cup {"yy"}) }

InitDeploy ==
    /\ cmd \in {"deploy", "remove", "build"}
    /\ c \in CASE cmd = "deploy" -> DeployConfigs
              [] cmd = "remove" -> RemoveConfigs
              [] OTHER          -> BuildConfigs
    /\ disk \in DeployDisks
    /\ pc = IF cmd = "remove" THEN "r_load" ELSE "start"
    /\ result = Running
    /\ bundle = None
    /\ order = <<>>
    /\ bundle_url = None
    /\ status = NoStatus
    /\ revisions = <<>>
    /\ saved_error = None
    /\ new_bundle = None
    /\ cursor = 0
    /\ saved = None
    /\ rbundle = None
    /\ rleft = {}
    /\ graph = EmptyGraph
    /\ log = <<>>

PublishVars == <<order, bundle_url, status, revisions, saved_error, new_bundle, cursor>>

\* main.rs:279: Bundle::load(&c.bundle_path)?
DeployLoad ==
    /\ cmd = "deploy" /\ pc = "start"
    /\ log' = Append(log, Ev("load", "", ""))
    /\ \E ok \in BOOLEAN :
         IF ok THEN bundle' = Some(disk.bundle) /\ pc' = "limit" /\ UNCHANGED result
               ELSE Return(Err("load")) /\ UNCHANGED bundle
    /\ UNCHANGED <<cmd, c, disk, saved, rbundle, rleft, PublishVars, graph>>

\* main.rs:281: bundle.limit_apps(&c.apps[..], &c.exceptions[..])?
DeployNarrow ==
    /\ cmd = "deploy" /\ pc = "limit"
    /\ LET r == DeployLimit(Unwrap(bundle))
       IN  IF r.ok THEN bundle' = Some(r.bundle) /\ pc' = "build" /\ UNCHANGED result
                   ELSE Return(Err("limit_apps")) /\ UNCHANGED bundle
    /\ UNCHANGED <<cmd, c, disk, saved, rbundle, rleft, log, PublishVars, graph>>

\* main.rs:288-299: the optional build of the narrowed bundle.
DeployBuild ==
    /\ cmd = "deploy" /\ pc = "build"
    /\ IF ~IsSome(c.build)
       THEN pc' = "upgrade" /\ UNCHANGED <<result, log>>
       ELSE LET build == Unwrap(c.build)
                checked == ensure_subset(build, DOMAIN Unwrap(bundle).applications)
            IN  IF build # {} /\ ~checked.ok
                THEN Return(ErrNames("Apps not found in bundle", checked.diff))
                     /\ UNCHANGED log
                ELSE /\ log' = Append(log, Ev("build", "", ""))
                     /\ \E ok \in BOOLEAN :
                          IF ok THEN pc' = "upgrade" /\ UNCHANGED result
                                ELSE Return(Err("build"))
    /\ UNCHANGED <<cmd, c, disk, bundle, saved, rbundle, rleft, PublishVars, graph>>

\* main.rs:301-305: with --upgrade-charms the rest is skipped.
DeployUpgrade ==
    /\ cmd = "deploy" /\ pc = "upgrade"
    /\ IF c.upgrade_charms
       THEN /\ log' = Append(log, Ev("upgrade_charms", "", ""))
            /\ \E ok \in BOOLEAN : IF ok THEN Return(Ok) ELSE Return(Err("upgrade"))
       ELSE pc' = "save" /\ UNCHANGED <<result, log>>
    /\ UNCHANGED <<cmd, c, disk, bundle, saved, rbundle, rleft, PublishVars, graph>>

\* main.rs:307-308: the narrowed bundle is saved to a temporary file.
DeploySave ==
    /\ cmd = "deploy" /\ pc = "save"
    /\ \E ok \in BOOLEAN :
         IF ok
         THEN /\ saved' = bundle
              /\ log' = Append(log, Ev("save", "", ""))
              /\ pc' = IF c.recreate THEN "r_load" ELSE "wait"
              /\ UNCHANGED result
         ELSE Return(Err("save")) /\ UNCHANGED <<saved, log>>
    /\ UNCHANGED <<cmd, c, disk, bundle, rbundle, rleft, PublishVars, graph>>

\* main.rs:354 (remove, also called by deploy at main.rs:310-316 with
\* deploy's apps and bundle path): Bundle::load(c.bundle)?
RemoveLoad ==
    /\ cmd \in {"deploy", "remove"} /\ pc = "r_load"
    /\ log' = Append(log, Ev("load", "", ""))
    /\ \E ok \in BOOLEAN :
         IF ok THEN rbundle' = Some(disk.bundle) /\ pc' = "r_limit" /\ UNCHANGED result
               ELSE Return(Err("load")) /\ UNCHANGED rbundle
    /\ UNCHANGED <<cmd, c, disk, bundle, saved, rleft, PublishVars, graph>>

\* main.rs:355: bundle.limit_apps(&c.apps[..], &[])?
RemoveNarrow ==
    /\ cmd \in {"deploy", "remove"} /\ pc = "r_limit"
    /\ LET r == RemoveLimit(Unwrap(rbundle))
       IN  IF r.ok
           THEN /\ rbundle' = Some(r.bundle)
                /\ rleft' = DOMAIN r.bundle.applications
                /\ pc' = "r_loop" /\ UNCHANGED result
           ELSE Return(Err("limit_apps")) /\ UNCHANGED <<rbundle, rleft, graph>>
    /\ UNCHANGED <<cmd, c, disk, bundle, saved, log, PublishVars, graph>>

\* main.rs:356-361: one iteration of the loop: `juju remove-application`
\* is spawned for the next application and waited for; its exit status is
\* not looked at.
RemoveApp(name) ==
    /\ cmd \in {"deploy", "remove"} /\ pc = "r_loop" /\ name \in rleft
    /\ \E outcome \in {"ok", "spawn", "exit"} :
         IF outcome = "spawn"
         THEN Return(Err("spawn")) /\ UNCHANGED <<log, rleft>>
         ELSE /\ log' = Append(log, Ev("remove-application", name, outcome))
              /\ rleft' = rleft \ {name}
              /\ UNCHANGED <<pc, result>>
    /\ UNCHANGED <<cmd, c, disk, bundle, saved, rbundle, PublishVars, graph>>

\* main.rs:362: remove returns Ok: the subcommand is over, or deploy goes on.
RemoveDone ==
    /\ cmd \in {"deploy", "remove"} /\ pc = "r_loop" /\ rleft = {}
    /\ IF cmd = "deploy" THEN pc' = "wait" /\ UNCHANGED result ELSE Return(Ok)
    /\ UNCHANGED <<cmd, c, disk, bundle, saved, rbundle, rleft, log, PublishVars, graph>>

\* DeployWait that does not look at the exit status of `juju wait`.
DeployWaitAnyExit ==
    /\ cmd = "deploy" /\ pc = "wait"
    /\ IF c.wait > 0
       THEN \E outcome \in {"ok", "spawn", "exit"} :
              IF outcome = "spawn"
              THEN Return(Err("spawn")) /\ UNCHANGED log
              ELSE /\ log' = Append(log, Ev("wait", "", outcome))
                   /\ pc' = "deploy" /\ UNCHANGED result
       ELSE pc' = "deploy" /\ UNCHANGED <<result, log>>
    /\ UNCHANGED <<cmd, c, disk, bundle, saved, rbundle, rleft, PublishVars, graph>>

\* main.rs:318-332: `juju wait` when wait > 0.
DeployWait ==
    /\ cmd = "deploy" /\ pc = "wait"
    /\ IF c.wait > 0
       THEN \E outcome \in {"ok", "spawn", "exit"} :
              IF outcome = "spawn"
              THEN Return(Err("spawn")) /\ UNCHANGED log
              ELSE /\ log' = Append(log, Ev("wait", "", outcome))
                   /\ IF outcome = "ok"
                      THEN pc' = "deploy" /\ UNCHANGED result
                      ELSE Return(Err("Encountered an error while waiting to deploy"))
       ELSE pc' = "deploy" /\ UNCHANGED <<result, log>>
    /\ UNCHANGED <<cmd, c, disk, bundle, saved, rbundle, rleft, PublishVars, graph>>

\* main.rs:334-349: `juju deploy` on the temporary file.
DeployRun ==
    /\ cmd = "deploy" /\ pc = "deploy"
    /\ \E outcome \in {"ok", "spawn", "exit"} :
         IF outcome = "spawn"
         THEN Return(Err("spawn")) /\ UNCHANGED log
         ELSE /\ log' = Append(log, Ev("deploy", "", ""))
              /\ IF outcome = "ok"
                 THEN Return(Ok)
                 ELSE Return(Err("Encountered an error while deploying bundle"))
    /\ UNCHANGED <<cmd, c, disk, bundle, saved, rbundle, rleft, PublishVars, graph>>

\* build (main.rs:250-273)

\* main.rs:254: Bundle::load(c.bundle.clone())?
BuildLoad ==
    /\ cmd = "build" /\ pc = "start"
    /\ log' = Append(log, Ev("load", "", ""))
    /\ \E ok \in BOOLEAN :
         IF ok THEN bundle' = Some(disk.bundle) /\ pc' = "b_check" /\ UNCHANGED result
               ELSE Return(Err("load")) /\ UNCHANGED bundle
    /\ UNCHANGED <<cmd, c, disk, saved, rbundle, rleft, PublishVars, graph>>

\* main.rs:256-264: the named applications must be in the bundle.
BuildCheck ==
    /\ cmd = "build" /\ pc = "b_check"
    /\ LET checked == ensure_subset(c.apps, DOMAIN Unwrap(bundle).applications)
       IN  IF c.apps # {} /\ ~checked.ok
           THEN Return(ErrNames("Apps not found in bundle", checked.diff))
           ELSE pc' = "b_build" /\ UNCHANGED result
    /\ UNCHANGED <<cmd, c, disk, bundle, saved, rbundle, rleft, log, PublishVars, graph>>

\* main.rs:266: bundle.build(..)?: the charms are built.
BuildRun ==
    /\ cmd = "build" /\ pc = "b_build"
    /\ log' = Append(log, Ev("build", "", ""))
    /\ \E ok \in BOOLEAN :
         IF ok THEN pc' = "b_save" /\ UNCHANGED result ELSE Return(Err("build"))
    /\ UNCHANGED <<cmd, c, disk, bundle, saved, rbundle, rleft, PublishVars, graph>>

\* main.rs:268-272: bundle.save(&c.output_bundle)?
BuildSave ==
    /\ cmd = "build" /\ pc = "b_save"
    /\ \E ok \in BOOLEAN :
         IF ok
         THEN /\ saved' = bundle
              /\ log' = Append(log, Ev("save", "", ""))
              /\ Return(Ok)
         ELSE Return(Err("save")) /\ UNCHANGED <<saved, log>>
    /\ UNCHANGED <<cmd, c, disk, bundle, rbundle, rleft, PublishVars, graph>>

NextDeploy ==
    \/ BuildLoad
    \/ BuildCheck
    \/ BuildRun
    \/ BuildSave
    \/ DeployLoad
    \/ DeployNarrow
    \/ DeployBuild
    \/ DeployUpgrade
    \/ DeploySave
    \/ RemoveLoad
    \/ RemoveNarrow
    \/ \E name \in Apps : RemoveApp(name)
    \/ RemoveDone
    \/ DeployWait
    \/ DeployRun

SpecDeploy == InitDeploy /\ [][NextDeploy]_vars

---------------------------------------------------------------------------
\* Properties of publish.

\* The units of work have been dispatched (main.rs:447 was reached).
Dispatched == cmd = "publish" /\ IsSome(bundle_url)
\* The collect of main.rs:447-451 has returned.
Collected == Dispatched /\ pc # "units"
\* The loop of main.rs:456-464 has ended.
Merged == cmd = "publish" /\ (pc \in {"copy", "upload"} \/ IsSome(saved)
                               \/ (pc = "merge" /\ cursor = Len(revisions)))
\* The application as the bundle document has it.
DiskApp(a) == disk.bundle.applications[a]
\* The URL string application a's unit of work returned (status[a] = "ok").
OutcomeOf(a) ==
    LET i == CHOOSE i \in DOMAIN revisions : revisions[i][1] = a
    IN  revisions[i][2]
Shows(a) == {i \in DOMAIN log : log[i].op = "show" /\ log[i].app = a}
NoUnitEffect ==
    \A i \in DOMAIN log : log[i].op \notin {"show", "upload", "prune"}

\* C1: publish with --prune and without --serial returns the configuration
\* error before the bundle is loaded, before the login and before any unit
\* of work: nothing is logged, loaded, dispatched or saved in that run; and
\* in no run is the pruner invoked under Parallel policy.
C1_PruneNeedsSerial ==
    cmd = "publish" =>
      /\ (c.prune /\ ~c.serial) =>
           /\ pc \in {"start", "done"}
           /\ log = <<>> /\ bundle = None /\ status = NoStatus
           /\ new_bundle = None /\ saved = None
           /\ pc = "done" =>
                result = Err("To use --prune, you must set the --serial flag as well.")
      /\ Did("prune") => c.serial
C1_Witness ==
    cmd = "publish" /\ c.prune /\ ~c.serial /\ pc = "done" /\ result.kind = "err"

\* C2: if the unit of work of at least one application returned an error,
\* publish returns an error, no charm reference is rewritten, no pinned
\* bundle is saved and the bundle is not uploaded.
C2_UnitErrorAborts ==
    (cmd = "publish" /\ \E a \in Apps : status[a] = "err") =>
      /\ pc = "done" => result.kind = "err"
      /\ IsSome(new_bundle) => new_bundle = bundle
      /\ saved = None
      /\ ~Did("save") /\ ~Did("upload_bundle")

\* C3 as stated: once the units were dispatched and the collect has
\* returned (no unit having panicked), every application's unit of work was
\* started and ran to completion.
C3_EveryUnitRuns ==
    (Collected /\ Panicked = {}) => \A a \in Apps : status[a] \in {"ok", "err"}

\* C3, amended: a started unit is never cancelled and publish goes on only
\* when none is in flight; no unit is started once a unit has returned an
\* error; an application is left unprocessed only if a unit failed.
C3_StartedUnitsFinish ==
    /\ [](/\ Collected => InFlight = {}
          /\ (Collected /\ Completed # Apps) =>
                \E a \in Apps : status[a] \in {"err", "panic"}
          /\ (Collected /\ pc # "done") => \A a \in Apps : status[a] = "ok")
    /\ [][\A a \in Apps :
            /\ status[a] = "running" => status'[a] \in {"running", "ok", "err", "panic"}
            /\ status[a] \in {"ok", "err", "panic"} => status'[a] = status[a]
            /\ (status[a] = "idle" /\ status'[a] # "idle") =>
                 /\ status'[a] = "running"
                 /\ \A b \in Apps : status[b] # "err"]_vars
C3_Witness ==
    /\ Collected /\ ~c.serial /\ Panicked = {} /\ Len(log) = 4
    /\ \E a, b \in Apps : /\ status[a] = "err" /\ status[b] = "ok"
                          /\ log[3].app = a /\ log[4].app = b

\* What the merge has to produce: every application with the reference its
\* own unit of work returns, and no channel.
PinnedApplications ==
    [a \in Apps |->
        [DiskApp(a) EXCEPT !.charm = Some(ParseUrl(Helper(a, DiskApp(a), TRUE).value)),
                           !.channel = None]]

\* C4: the applications of the pinned bundle are the same under Serial and
\* Parallel policy and for every completion order: each application carries
\* the reference its own unit of work returned.
C4_MergeOrderIndependent ==
    Merged => Unwrap(new_bundle).applications = PinnedApplications
C4_Witness ==
    /\ Merged /\ ~c.serial /\ IsSome(saved)
    /\ \E i \in DOMAIN revisions : revisions[i][1] # order[i]
    /\ \E a \in Apps : Unwrap(saved).applications[a].charm # DiskApp(a).charm

\* C6 as stated: an application with a build source (and a charm reference)
\* whose unit of work succeeded was built and uploaded, and the fresh
\* revision is what its unit returned.
C6_SourceAlwaysBuilds ==
    cmd = "publish" =>
      \A a \in Apps :
        (DiskApp(a).source /\ IsSome(DiskApp(a).charm) /\ status[a] = "ok") =>
          /\ Count("upload", a) = 1
          /\ OutcomeOf(a).revision = Some(disk.fresh)

\* C6, amended: an application with a build source whose reference carries
\* no revision takes the build branch (one upload, no store query; the
\* fresh revision is pinned when the unit succeeds); one whose reference
\* carries a revision keeps it, and nothing is built or uploaded for it.
C6_SourceBuildsUnlessPinned ==
    cmd = "publish" =>
      \A a \in Apps :
        (DiskApp(a).source /\ IsSome(DiskApp(a).charm)) =>
          LET url == Unwrap(DiskApp(a).charm)
          IN  /\ Count("show", a) = 0
              /\ IsSome(url.revision) =>
                   /\ Count("upload", a) = 0
                   /\ status[a] \in {"idle", "running", "ok"}
                   /\ status[a] = "ok" => OutcomeOf(a) = UrlToString(url)
              /\ ~IsSome(url.revision) =>
                   /\ status[a] \in {"ok", "err"} => Count("upload", a) = 1
                   /\ status[a] \in {"idle", "running", "panic"} => Count("upload", a) = 0
                   /\ status[a] = "ok" =>
                        OutcomeOf(a) = [str |-> "url", name |-> a,
                                        revision |-> Some(disk.fresh)]
C6_Witness ==
    /\ cmd = "publish" /\ pc = "done" /\ result = Ok
    /\ \E a, b \in Apps :
         /\ DiskApp(a).source /\ IsSome(DiskApp(a).charm)
         /\ IsSome(Unwrap(DiskApp(a).charm).revision)
         /\ Unwrap(saved).applications[a].charm = DiskApp(a).charm
         /\ DiskApp(b).source /\ IsSome(DiskApp(b).charm)
         /\ Unwrap(Unwrap(saved).applications[b].charm).revision = Some(disk.fresh)
         /\ Count("upload", a) = 0 /\ Count("upload", b) = 1

\* The channel publish has to query for an application without a source.
DeclaredChannel(app) ==
    IF app.channel = None THEN "Stable"
    ELSE IF app.channel = Some("edge") THEN "Edge"
    ELSE IF app.channel = Some("stable") THEN "Stable"
    ELSE "invalid"

\* C7: for an application without a build source nothing is built or
\* uploaded; if its reference has a revision the store is not queried and
\* the reference is returned unchanged; otherwise the store is queried at
\* most once, and exactly once, on the declared channel (Stable by default),
\* when the unit succeeds, which pins the revision the store reported.
C7_NoSourcePinsStoreRevision ==
    cmd = "publish" =>
      \A a \in Apps :
        (~DiskApp(a).source /\ IsSome(DiskApp(a).charm)) =>
          LET url == Unwrap(DiskApp(a).charm)
          IN  /\ Count("upload", a) = 0
              /\ IsSome(url.revision) =>
                   /\ Count("show", a) = 0
                   /\ status[a] = "ok" => OutcomeOf(a) = UrlToString(url)
              /\ ~IsSome(url.revision) =>
                   /\ Count("show", a) <= 1
                   /\ status[a] = "ok" =>
                        /\ Count("show", a) = 1
                        /\ \A i \in Shows(a) : log[i].arg = DeclaredChannel(DiskApp(a))
                        /\ OutcomeOf(a) =
                             [str |-> "url", name |-> a,
                              revision |-> Some(disk.latest[DeclaredChannel(DiskApp(a))])]
C7_Witness ==
    /\ cmd = "publish" /\ pc = "done" /\ result = Ok
    /\ \E a \in Apps :
         /\ ~DiskApp(a).source /\ DiskApp(a).channel = None
         /\ DiskApp(a).charm = Some([name |-> a, revision |-> None])
         /\ Count("show", a) = 1 /\ Count("upload", a) = 0
         /\ Unwrap(saved).applications[a].charm = Some([name |-> a, revision |-> Some(7)])

\* C8: an application with neither a charm reference nor a build source
\* makes publish return a configuration error before the login and before
\* any unit of work, with nothing queried, built, uploaded or saved.
C8_MissingCharmEager ==
    (cmd = "publish" /\ \E a \in Apps : ~IsSome(DiskApp(a).charm) /\ ~DiskApp(a).source) =>
      /\ ~Did("login")
      /\ status = NoStatus
      /\ NoUnitEffect /\ saved = None
      /\ pc = "done" => result.kind = "err"

\* C9: under Serial policy at most one unit of work is in flight, the
\* applications are taken in the iteration order of the applications map,
\* and the outcomes are produced in that order.
C9_SerialInOrder ==
    (Dispatched /\ c.serial) =>
      /\ Cardinality(InFlight) <= 1
      /\ \E k \in 0..NumApps :
           /\ Completed \cup InFlight = {order[i] : i \in 1..k}
           /\ \A i \in 1..k : status[order[i]] = "running" => i = k
      /\ \A i \in DOMAIN revisions : revisions[i][1] = order[i]
C9_Witness ==
    /\ Dispatched /\ c.serial /\ pc = "done" /\ result = Ok
    /\ Len(revisions) = NumApps /\ order[1] # AllNames[1]

\* C10: while a unit of work is in flight nothing is rewritten (the clone
\* does not exist yet); the rewrite is made after the collect, on the clone;
\* the loaded bundle stays what was loaded.
C10_MergeAfterCollect ==
    cmd = "publish" =>
      /\ InFlight # {} => new_bundle = None
      /\ IsSome(bundle) => Unwrap(bundle) = disk.bundle
      /\ (IsSome(new_bundle) /\ new_bundle # bundle) =>
           /\ Collected /\ InFlight = {} /\ Completed = Apps
           /\ Unwrap(new_bundle).relations = disk.bundle.relations
      /\ (pc = "units" \/ ~Dispatched) => cursor = 0
C10_Witness ==
    /\ cmd = "publish" /\ ~c.serial /\ pc = "done" /\ result = Ok
    /\ bundle = Some(disk.bundle) /\ new_bundle # bundle /\ saved = new_bundle

---------------------------------------------------------------------------
\* Properties of deploy and remove.

\* Every relation endpoint of bundle b names an application of b.
Consistent(b) ==
    \A i \in DOMAIN b.relations : \A j \in 1..2 :
        EndpointApp(b.relations[i][j]) \in DOMAIN b.applications

\* C5: once deploy or remove has narrowed its bundle, every relation of the
\* bundle (the one deploy saves and deploys, the one whose applications
\* remove removes) has both endpoints among the remaining applications; the
\* narrowing fails only when a selected application is not in the bundle.
C5_NarrowedBundleConsistent ==
    /\ (cmd = "deploy" /\ IsSome(bundle) /\ pc \notin {"start", "limit"}) =>
          Consistent(Unwrap(bundle))
    /\ IsSome(saved) => Consistent(Unwrap(saved))
    /\ (IsSome(rbundle) /\ pc \notin {"r_load", "r_limit"}) =>
          /\ Consistent(Unwrap(rbundle))
          /\ rleft \subseteq DOMAIN Unwrap(rbundle).applications
    /\ result = Err("limit_apps") => ~(c.apps \subseteq DOMAIN disk.bundle.applications)
C5_Witness ==
    /\ cmd = "deploy" /\ pc = "done" /\ result = Ok /\ Did("deploy")
    /\ Len(Unwrap(saved).relations) >= 1
    /\ Len(Unwrap(saved).relations) < Len(disk.bundle.relations)
    /\ DOMAIN Unwrap(saved).applications # DOMAIN disk.bundle.applications

---------------------------------------------------------------------------
\* export (main.rs:527-552)

\* The last item of rel[0].split(':'): split yields at least one segment.
LastSegment(endpoint) == endpoint[Len(endpoint)]

\* main.rs:540-541: graph.node_indices().find(|i| graph[*i] == app): the
\* first node that carries the name, None when no node does.
FindNode(g, app) ==
    LET found == {i \in DOMAIN g.nodes : g.nodes[i] = app}
    IN  IF found = {} THEN None
        ELSE Some(CHOOSE i \in found : \A j \in found : i <= j)

\* EdgeOf with the two endpoints exchanged.
EdgeOfReversed(g, rel) ==
    [from  |-> Unwrap(FindNode(g, EndpointApp(rel[2]))),
     to    |-> Unwrap(FindNode(g, EndpointApp(rel[1]))),
     label |-> LastSegment(rel[1])]

\* main.rs:537-542: the edge added for relation rel.
EdgeOf(g, rel) ==
    [from  |-> Unwrap(FindNode(g, EndpointApp(rel[1]))),
     to    |-> Unwrap(FindNode(g, EndpointApp(rel[2]))),
     label |-> LastSegment(rel[1])]

\* The inputs of export: the relation pairs of deploy's documents and one
\* whose first endpoint has two ':'.
ExportPairs ==
    {RelPairs[k] : k \in DOMAIN RelPairs}
        \cup { <<(<<"a", "x", "db">>), (<<"b">>)>> }
ExportDisks ==
    { [bundle |-> MkBundle(Some("bundle"),
                           [a \in Apps |-> MkApp(a, Kind("rev", None, FALSE, FALSE))],
                           rels),
       fails  |-> {},
       latest |-> [Stable |-> 7, Edge |-> 8],
       fresh  |-> 9] :
        rels \in UNION {[1..n -> ExportPairs] : n \in 0..MaxRels} }

\* ExportConfig (main.rs:195-205)
ExportConfigs == { [out |-> o] : o \in {None, Some("out.dot")} }

InitExport ==
    /\ cmd = "export"
    /\ c \in ExportConfigs
    /\ disk \in ExportDisks
    /\ pc = "start"
    /\ result = Running
    /\ bundle = None
    /\ order = <<>>
    /\ bundle_url = None
    /\ status = NoStatus
    /\ revisions = <<>>
    /\ saved_error = None
    /\ new_bundle = None
    /\ cursor = 0
    /\ saved = None
    /\ rbundle = None
    /\ rleft = {}
    /\ graph = EmptyGraph
    /\ log = <<>>

ExportIdle == <<cmd, c, disk, bundle_url, status, revisions, saved_error,
                new_bundle, saved, rbundle, rleft>>

\* main.rs:529-531: Bundle::load(&c.bundle)? and Graph::new()
ExportLoad ==
    /\ cmd = "export" /\ pc = "start"
    /\ log' = Append(log, Ev("load", "", ""))
    /\ \E ok \in BOOLEAN :
         IF ok
         THEN /\ bundle' = Some(disk.bundle)
              /\ order' \in Perms(Apps)
              /\ pc' = "nodes" /\ UNCHANGED result
         ELSE Return(Err("load")) /\ UNCHANGED <<bundle, order>>
    /\ UNCHANGED <<ExportIdle, cursor, graph>>

\* main.rs:533-535: one iteration of the loop over the application names.
ExportNode ==
    /\ cmd = "export" /\ pc = "nodes" /\ cursor < Len(order)
    /\ graph' = [graph EXCEPT !.nodes = Append(@, order[cursor + 1])]
    /\ cursor' = cursor + 1
    /\ UNCHANGED <<ExportIdle, pc, result, bundle, order, log>>

\* main.rs:535-536: the loop over the names ends, the one over the
\* relations begins.
ExportNodesDone ==
    /\ cmd = "export" /\ pc = "nodes" /\ cursor = Len(order)
    /\ pc' = "edges" /\ cursor' = 0
    /\ UNCHANGED <<ExportIdle, result, bundle, order, graph, log>>

\* main.rs:536-543: one iteration of the loop over the relations; the
\* unwrap of a node that is not found panics.
ExportEdge ==
    /\ cmd = "export" /\ pc = "edges" /\ cursor < Len(Unwrap(bundle).relations)
    /\ LET rel == Unwrap(bundle).relations[cursor + 1]
       IN  IF \E j \in 1..2 : FindNode(graph, EndpointApp(rel[j])) = None
           THEN Return(Panic("unwrap on None")) /\ UNCHANGED <<graph, cursor>>
           ELSE /\ graph' = [graph EXCEPT !.edges = Append(@, EdgeOf(graph, rel))]
                /\ cursor' = cursor + 1
                /\ UNCHANGED <<pc, result>>
    /\ UNCHANGED <<ExportIdle, bundle, order, log>>

\* main.rs:544-551: the graph is written to c.out or printed.
ExportWrite ==
    /\ cmd = "export" /\ pc = "edges" /\ cursor = Len(Unwrap(bundle).relations)
    /\ IF IsSome(c.out)
       THEN \E ok \in BOOLEAN :
              IF ok THEN log' = Append(log, Ev("write", "", Unwrap(c.out))) /\ Return(Ok)
                    ELSE Return(Err("write")) /\ UNCHANGED log
       ELSE log' = Append(log, Ev("print", "", "")) /\ Return(Ok)
    /\ UNCHANGED <<ExportIdle, bundle, order, cursor, graph>>

NextExport ==
    \/ ExportLoad
    \/ ExportNode
    \/ ExportNodesDone
    \/ ExportEdge
    \/ ExportWrite

SpecExport == InitExport /\ [][NextExport]_vars

\* The graph is complete: both loops of export have ended.
GraphBuilt == cmd = "export" /\ pc = "done" /\ result.kind \in {"ok", "err"}
                /\ IsSome(bundle)
\* The text after the last ':' of an endpoint, empty when it has no ':'.
InterfaceSegment(endpoint) ==
    IF Len(endpoint) = 1 THEN "" ELSE endpoint[Len(endpoint)]

\* C11: every relation's edge is labelled with the text after the last ':'
\* of the first endpoint, and with the empty string when the first endpoint
\* has no ':'.
C11_EdgeLabelIsInterface ==
    cmd = "export" =>
      \A i \in DOMAIN graph.edges :
        graph.edges[i].label = InterfaceSegment(Unwrap(bundle).relations[i][1])

\* C12: the graph export builds has exactly one node per application name
\* and exactly one edge per relation pair, in the order of the relations,
\* each from the node of the first endpoint's application to the node of
\* the second endpoint's application.
C12_GraphMatchesBundle ==
    /\ cmd = "export" =>
         /\ \A i, j \in DOMAIN graph.nodes : graph.nodes[i] = graph.nodes[j] => i = j
         /\ Len(graph.edges) <= Len(disk.bundle.relations)
         /\ \A i \in DOMAIN graph.edges :
              /\ graph.edges[i].from \in DOMAIN graph.nodes
              /\ graph.edges[i].to \in DOMAIN graph.nodes
              /\ graph.nodes[graph.edges[i].from] = EndpointApp(disk.bundle.relations[i][1])
              /\ graph.nodes[graph.edges[i].to] = EndpointApp(disk.bundle.relations[i][2])
    /\ GraphBuilt =>
         /\ {graph.nodes[i] : i \in DOMAIN graph.nodes} = DOMAIN disk.bundle.applications
         /\ Len(graph.nodes) = Cardinality(DOMAIN disk.bundle.applications)
         /\ Len(graph.edges) = Len(disk.bundle.relations)
C12_Witness ==
    /\ GraphBuilt /\ result = Ok /\ Len(graph.edges) = MaxRels
    /\ graph.edges[1] = graph.edges[2]
    /\ graph.edges[1].from # graph.edges[1].to
    /\ graph.nodes[1] # AllNames[1]

---------------------------------------------------------------------------
\* Properties of build.

\* The applications build / deploy --build was asked to build.
Requested == IF cmd = "build" THEN c.apps
             ELSE IF IsSome(c.build) THEN Unwrap(c.build) ELSE {}
\* The check of the requested names has been made: the bundle was loaded
\* (and, in deploy, narrowed) and the subcommand is past main.rs:262 / 295.
SelectionChecked ==
    /\ IsSome(bundle)
    /\ \/ cmd = "build" /\ pc \notin {"start", "b_check"}
       \/ cmd = "deploy" /\ IsSome(c.build) /\ pc \notin {"start", "limit", "build"}
                         /\ result # Err("limit_apps")
SelectionError == result.kind = "err" /\ result.msg = "Apps not found in bundle"

\* C13: build, and deploy with --build names, return the selection error
\* if and only if a requested name is not an application of the bundle (in
\* deploy: of the narrowed bundle); the error lists every such name; with
\* that error nothing is built and nothing is saved.
C13_SelectionErrorNamesAll ==
    /\ SelectionError => SelectionChecked
    /\ SelectionChecked =>
         LET existing == DOMAIN Unwrap(bundle).applications
         IN  /\ SelectionError <=> (Requested \ existing # {})
             /\ SelectionError =>
                  /\ result.names = Requested \ existing
                  /\ ~Did("build") /\ ~Did("save") /\ saved = None
                  /\ pc = "done"
C13_Witness ==
    /\ cmd = "build" /\ SelectionChecked /\ SelectionError
    /\ Cardinality(result.names) = 2 /\ result.names # c.apps
C13_WitnessDeploy ==
    /\ cmd = "deploy" /\ SelectionChecked /\ SelectionError
    /\ Cardinality(result.names) = 2

---------------------------------------------------------------------------
\* Properties of publish: the error of a failed unit of work.

\* publish has returned the error its units of work collected to.
UnitErrorReturned ==
    /\ Collected /\ pc = "done" /\ result.kind = "err"
    /\ IsSome(saved_error) /\ Panicked = {}
\* The errors application a's unit of work can return.
UnitErrors(a) ==
    {Helper(a, DiskApp(a), p).msg : p \in {q \in BOOLEAN : Helper(a, DiskApp(a), q).kind = "err"}}

\* C14 as stated: the error publish returns for a failed unit of work
\* carries the name of the application whose unit failed.
C14_ErrorTaggedWithApp ==
    UnitErrorReturned => \E a \in Apps : status[a] = "err" /\ result.names = {a}

\* C14, amended: the error publish returns for a failed unit of work is the
\* error a failed unit returned, as it is: no application name is attached;
\* under Serial policy it is the error of the first application that failed.
C14_ErrorPassedThrough ==
    UnitErrorReturned =>
      /\ result.names = {}
      /\ \E a \in Apps : status[a] = "err" /\ result.msg \in UnitErrors(a)
      /\ c.serial => /\ Cardinality({a \in Apps : status[a] = "err"}) = 1
                     /\ status[order[Len(revisions) + 1]] = "err"
C14_Witness ==
    /\ UnitErrorReturned /\ ~c.serial
    /\ \E a, b \in Apps : /\ status[a] = "err" /\ status[b] = "err"
                          /\ UnitErrors(a) = {"show"} /\ UnitErrors(b) = {"upload"}
                          /\ result = Err("upload")

---------------------------------------------------------------------------
\* promote (main.rs:506-525)

\* PromoteConfig (main.rs:175-193): the selection and the two channels.
PromoteConfigs ==
    { [apps |-> a, from |-> f, to |-> t] :
        a \in SUBSET Names, f \in {"Edge", "Stable"}, t \in {"Edge", "Stable"} }

\* The bundle that Bundle::load_from_store fetches.
PromoteDisks == {d \in DeployDisks : d.bundle.relations = <<>>}

InitPromote ==
    /\ cmd = "promote"
    /\ c \in PromoteConfigs
    /\ disk \in PromoteDisks
    /\ pc = "start"
    /\ result = Running
    /\ bundle = None
    /\ order = <<>>
    /\ bundle_url = None
    /\ status = NoStatus
    /\ revisions = <<>>
    /\ saved_error = None
    /\ new_bundle = None
    /\ cursor = 0
    /\ saved = None
    /\ rbundle = None
    /\ rleft = {}
    /\ graph = EmptyGraph
    /\ log = <<>>

PromoteIdle == <<cmd, c, disk, bundle_url, status, revisions, saved_error,
                 new_bundle, saved, rbundle, rleft, graph>>

\* main.rs:508-510: Bundle::load_from_store(&c.bundle, c.from)?
PromoteLoad ==
    /\ cmd = "promote" /\ pc = "start"
    /\ log' = Append(log, Ev("load_from_store", "", c.from))
    /\ \E ok \in BOOLEAN :
         IF ok
         THEN /\ bundle' = Some(disk.bundle)
              /\ order' \in Perms(Apps)
              /\ pc' = "apps" /\ UNCHANGED result
         ELSE Return(Err("load_from_store")) /\ UNCHANGED <<bundle, order>>
    /\ UNCHANGED <<PromoteIdle, cursor>>

\* Selected of a promote that takes an empty selection for all applications.
SelectedOrAll(name) == c.apps = {} \/ name \in c.apps

\* main.rs:513-515: an application is promoted when the selection names it.
Selected(name) == name \in c.apps

\* PromoteApp that goes on after a release that failed.
PromoteAppNoAbort ==
    /\ cmd = "promote" /\ pc = "apps" /\ cursor < Len(order)
    /\ LET name == order[cursor + 1]
       IN  IF ~Selected(name)
           THEN UNCHANGED <<result, log>>
           ELSE /\ log' = Append(log, Ev("release", name, c.to))
                /\ \E ok \in BOOLEAN :
                     IF ok THEN UNCHANGED result ELSE result' = Err("release")
    /\ cursor' = cursor + 1 /\ UNCHANGED pc
    /\ UNCHANGED <<PromoteIdle, bundle, order>>

\* main.rs:512-518: one iteration of the loop over the applications:
\* app.release(c.to)? for a selected application.
PromoteApp ==
    /\ cmd = "promote" /\ pc = "apps" /\ cursor < Len(order)
    /\ LET name == order[cursor + 1]
       IN  IF ~Selected(name)
           THEN cursor' = cursor + 1 /\ UNCHANGED <<pc, result, log>>
           ELSE /\ log' = Append(log, Ev("release", name, c.to))
                /\ \E ok \in BOOLEAN :
                     IF ok THEN cursor' = cursor + 1 /\ UNCHANGED <<pc, result>>
                           ELSE Return(Err("release")) /\ UNCHANGED cursor
    /\ UNCHANGED <<PromoteIdle, bundle, order>>

\* main.rs:520-524: bundle.release(..)? once the loop has ended.
PromoteBundle ==
    /\ cmd = "promote" /\ pc = "apps" /\ cursor = Len(order)
    /\ log' = Append(log, Ev("release_bundle", "", c.to))
    /\ \E ok \in BOOLEAN : IF ok THEN Return(Ok) ELSE Return(Err("release_bundle"))
    /\ UNCHANGED <<PromoteIdle, bundle, order, cursor>>

NextPromote ==
    \/ PromoteLoad
    \/ PromoteApp
    \/ PromoteBundle

SpecPromote == InitPromote /\ [][NextPromote]_vars

\* The applications released so far, in the order of the release calls.
ReleaseCalls == SelectSeq(log, LAMBDA ev : ev.op = "release")
Released == {ReleaseCalls[i].app : i \in DOMAIN ReleaseCalls}
\* The applications of the iteration order up to position k that the
\* selection names, in that order.
SelectedUpTo(k) == SelectSeq(SubSeq(order, 1, k), LAMBDA name : name \in c.apps)

\* C15: the selected applications are released one after another in
\* iteration order, to the target channel; the bundle is released only
\* after the loop has passed every application with every release
\* succeeding, and it is the last call; when a release fails promote
\* returns that error with no further release and no release of the bundle.
C15_ReleasesInSequence ==
    cmd = "promote" =>
      /\ \A i \in DOMAIN ReleaseCalls : ReleaseCalls[i].arg = c.to
      /\ result = Err("release") =>
           /\ pc = "done" /\ ~Did("release_bundle")
           /\ cursor < Len(order)
           /\ [i \in DOMAIN ReleaseCalls |-> ReleaseCalls[i].app] = SelectedUpTo(cursor + 1)
           /\ log[Len(log)] = Ev("release", order[cursor + 1], c.to)
      /\ result # Err("release") =>
           [i \in DOMAIN ReleaseCalls |-> ReleaseCalls[i].app] = SelectedUpTo(cursor)
      /\ Did("release_bundle") =>
           /\ cursor = Len(order) /\ pc = "done"
           /\ log[Len(log)] = Ev("release_bundle", "", c.to)
           /\ Count("release_bundle", "") = 1
C15_Witness ==
    /\ cmd = "promote" /\ result = Err("release")
    /\ Len(ReleaseCalls) = 2 /\ c.apps = Apps

---------------------------------------------------------------------------
\* Serial policy after an error.

IsPrefix(s, t) == Len(s) <= Len(t) /\ SubSeq(t, 1, Len(s)) = s
SerialError == Dispatched /\ c.serial /\ \E a \in Apps : status[a] = "err"
\* Nothing of the bundle was rewritten, saved, copied or uploaded.
NothingMerged ==
    /\ new_bundle \in {None, bundle} /\ cursor = 0 /\ saved = None
    /\ \A i \in DOMAIN log : log[i].op \notin {"save", "upload_bundle"}
\* Under Serial policy with a unit that returned an error: the failed
\* application is the only one that failed, the ones before it in the
\* iteration order succeeded and keep their results, the ones after it were
\* never started, and nothing is merged.
SerialStopped ==
    SerialError =>
      \E k \in 1..NumApps :
        /\ status[order[k]] = "err"
        /\ \A i \in 1..NumApps : i < k => /\ status[order[i]] = "ok"
                                          /\ revisions[i][1] = order[i]
        /\ \A i \in 1..NumApps : i > k => /\ status[order[i]] = "idle"
                                          /\ \A j \in DOMAIN log : log[j].app # order[i]
        /\ Len(revisions) = k - 1
        /\ NothingMerged
        /\ pc = "done" => result = Err(Unwrap(saved_error))
\* What the units did stays: the calls made and the results collected are
\* only added to.
EffectsKept ==
    (cmd = "publish" /\ c.serial) =>
      /\ IsPrefix(log, log') /\ IsPrefix(revisions, revisions')
      /\ SerialError => /\ revisions' = revisions
                        /\ \A a \in Apps : status'[a] = status[a]

\* C17: under Serial policy, once a unit of work has returned an error no
\* unit is started for a later application and nothing is merged, and the
\* effects of the units that completed are left in place.
C17_SerialStopsAtFirstError == []SerialStopped /\ [][EffectsKept]_vars
C17_Witness ==
    /\ SerialError /\ pc = "done" /\ result = Err("prune")
    /\ status[order[1]] = "err" /\ status[order[2]] = "idle"
    /\ \E i \in DOMAIN log : log[i] = Ev("upload", order[1], Unwrap(bundle_url))

---------------------------------------------------------------------------
\* deploy --recreate

\* The applications that `juju remove-application` was run for.
Removed == {a \in Apps : Count("remove-application", a) > 0}
\* The removal that deploy asked for has returned.
RecreateDone == cmd = "deploy" /\ c.recreate /\ (pc \in {"wait", "deploy"} \/ Did("deploy"))

\* C18: in deploy --recreate the applications removed are exactly the
\* applications of the narrowed bundle that is then deployed, and an
\* application listed as an exception is never removed.
C18_RecreateRemovesDeployed ==
    (cmd = "deploy" /\ c.recreate) =>
      /\ Removed \cap c.exceptions = {}
      /\ RecreateDone => Removed = DOMAIN Unwrap(saved).applications

---------------------------------------------------------------------------
\* The order of deploy's steps.

\* The place of the i-th logged call in deploy's sequence of steps; the
\* first load is deploy's own, a later one is the load made by remove.
StepRank(i) ==
    CASE log[i].op = "load"               -> IF i = 1 THEN 1 ELSE 5
      [] log[i].op = "build"              -> 2
      [] log[i].op = "upgrade_charms"     -> 3
      [] log[i].op = "save"               -> 4
      [] log[i].op = "remove-application" -> 6
      [] log[i].op = "wait"               -> 7
      [] log[i].op = "deploy"             -> 8
      [] OTHER                            -> 0
StepsInOrder ==
    \A i, j \in DOMAIN log :
      i < j => \/ StepRank(i) < StepRank(j)
               \/ log[i].op = "remove-application" /\ log[j].op = "remove-application"
\* Every step asked for before `juju deploy` was made and returned Ok.
EarlierStepsSucceeded ==
    /\ DeployLimit(disk.bundle).ok
    /\ bundle = Some(DeployLimit(disk.bundle).bundle)
    /\ IsSome(c.build) <=> Did("build")
    /\ Did("save") /\ saved = bundle
    /\ IF c.recreate
       THEN /\ IsSome(rbundle) /\ rleft = {}
            /\ Removed = DOMAIN Unwrap(rbundle).applications
       ELSE Removed = {} /\ rbundle = None
    /\ IF c.wait > 0
       THEN /\ Count("wait", "") = 1
            /\ \E i \in DOMAIN log : log[i] = Ev("wait", "", "ok")
       ELSE ~Did("wait")

\* C19: `juju deploy` is invoked at most once, as the last call, after the
\* narrowing, the optional build, the save, the optional removal and the
\* optional wait (which exited successfully) have all returned Ok, in that
\* order; an error of an earlier step is returned without `juju deploy`;
\* with upgrade_charms none of save, removal, wait and deploy is performed.
C19_DeployAfterAllSteps ==
    cmd = "deploy" =>
      /\ Count("deploy", "") <= 1
      /\ StepsInOrder
      /\ Did("deploy") =>
           /\ pc = "done" /\ log[Len(log)].op = "deploy"
           /\ ~c.upgrade_charms
           /\ EarlierStepsSucceeded
      /\ (result.kind = "err" /\ result.msg # "Encountered an error while deploying bundle")
           => ~Did("deploy")
      /\ (\E i \in DOMAIN log : log[i] = Ev("wait", "", "exit")) =>
           /\ ~Did("deploy")
           /\ result = Err("Encountered an error while waiting to deploy")
      /\ c.upgrade_charms =>
           /\ saved = None /\ rbundle = None
           /\ \A i \in DOMAIN log :
                log[i].op \notin {"save", "remove-application", "wait", "deploy"}
C19_Witness ==
    /\ cmd = "deploy" /\ pc = "done" /\ result = Ok /\ Did("deploy")
    /\ c.recreate /\ c.wait > 0 /\ IsSome(c.build)
    /\ Removed = Apps
    /\ \E i \in DOMAIN log : log[i] = Ev("remove-application", "a", "exit")

====
